---------------------------- MODULE Spec2Model ----------------------------
(* The length gate of the voice assistant: the Flask endpoint             *)
(* handle_audio_validation with trim_text_middle (src/app.py) and its     *)
(* caller validate_text_before_tts with calculate_audio_duration          *)
(* (src/minimal_assistant.py).                                            *)
(*                                                                        *)
(* A text is a sequence of characters.  A character is an integer: the    *)
(* members of Whitespace are whitespace characters (0 is the blank that   *)
(* " ".join writes, -1 a newline), every positive integer is a letter.    *)
(* Durations are kept in tenths of a second, so that the caller's         *)
(* word_count / (150 / 60) = 0.4 * word_count is an exact integer; the    *)
(* float the code computes is the correctly rounded value of the same     *)
(* rational, and its comparison with 60 agrees with the exact one.        *)
EXTENDS Integers, Sequences, FiniteSets, TLC

(* ------------------------------ bounds -------------------------------- *)
\* largest number of words of a generated input text
MaxWords == 301

(* ------------------------- program constants -------------------------- *)
Space == 0                      \* the separator of " ".join
Whitespace == {0, -1}           \* what str.split() splits on
MaxDuration == 60               \* if length <= 60
MinTrimWords == 150             \* if total_words <= 150
RatioNum == 1                   \* ratio = 0.5 = RatioNum / RatioDen
RatioDen == 2
SummaryMax == 100               \* max_length = 100
SummaryMin == 50                \* min_length = 50
RateWords == 150                \* words_per_second = 150 / 60
RateSeconds == 60
BadRequest == 400
OkStatus == 200
ServerError == 500

Tenths(seconds) == seconds * 10

(* ------------------------------- texts -------------------------------- *)
IsSpace(c) == c \in Whitespace

\* str.split(): the maximal runs of non-whitespace characters, in order
Split(text) ==
  LET n == Len(text)
      idx == [i \in 1..n |-> i]
      IsStart(i) == ~IsSpace(text[i]) /\ (i = 1 \/ IsSpace(text[i - 1]))
      IsEnd(i) == ~IsSpace(text[i]) /\ (i = n \/ IsSpace(text[i + 1]))
      starts == SelectSeq(idx, IsStart)
      ends == SelectSeq(idx, IsEnd)
  IN  [k \in 1..Len(starts) |-> SubSeq(text, starts[k], ends[k])]

\* " ".join(words)
\* (joined by halves, which gives the same text as joining left to right)
RECURSIVE Join(_)
Join(words) ==
  IF words = <<>> THEN <<>>
  ELSE IF Len(words) = 1 THEN words[1]
  ELSE LET h == Len(words) \div 2
       IN  Join(SubSeq(words, 1, h)) \o <<Space>>
             \o Join(SubSeq(words, h + 1, Len(words)))

\* "".join(chunks) of stream_to_text
RECURSIVE Concat(_)
Concat(chunks) ==
  IF chunks = <<>> THEN <<>> ELSE Head(chunks) \o Concat(Tail(chunks))

stream_to_text(stream) == Concat(stream)

(* -------------------------- trim_text_middle --------------------------- *)
\* int(total_words * ratio)
TrimSize(total_words) == (total_words * RatioNum) \div RatioDen

\* start = (total_words - trim_size) // 2
\* (faulty variant: the window not centred: the halving left out)
TrimStartNotCentred(total_words, trim_size) == total_words - trim_size
TrimStart(total_words, trim_size) == (total_words - trim_size) \div 2

\* words[start:end] with Python's 0-based, end-exclusive slice
Slice(words, start, end) == SubSeq(words, start + 1, end)

trim_text_middle(text) ==
  LET words == Split(text)
      total_words == Len(words)
  IN  IF total_words <= MinTrimWords
      THEN text
      ELSE LET trim_size == TrimSize(total_words)
               start == TrimStart(total_words, trim_size)
               end == start + trim_size
           IN  Join(Slice(words, start, end))

(* ------------------------------ responses ----------------------------- *)
NoResponse ==
  [status |-> 0, hasMessage |-> FALSE, message |-> <<>>, hasError |-> FALSE]

\* jsonify({"message": m}) with the default status
Success(m) ==
  [status |-> OkStatus, hasMessage |-> TRUE, message |-> m, hasError |-> FALSE]

\* jsonify({"error": "The 'text' field is missing."}), 400
MissingText ==
  [status |-> BadRequest, hasMessage |-> FALSE, message |-> <<>>, hasError |-> TRUE]

\* what the server answers when the view function raises
InternalError ==
  [status |-> ServerError, hasMessage |-> FALSE, message |-> <<>>, hasError |-> FALSE]

(* ----------------------------- summarizer ----------------------------- *)
\* The summarization pipeline is an external model.  Of a call the code can
\* see one of: a summary, the input given back, an empty summary, an
\* exception, or no return at all.
SummarizerOutcomes == {"summary", "echo", "empty", "throws", "hangs"}

\* a summary that is none of the input texts
SummaryText == <<MaxWords + 1, Space, MaxWords + 2>>

summary_text(input, outcome) ==
  CASE outcome = "summary" -> SummaryText
    [] outcome = "echo" -> input
    [] OTHER -> <<>>

SummarizerCall(input) ==
  [text |-> input, max_length |-> SummaryMax, min_length |-> SummaryMin,
   do_sample |-> FALSE]

(* ----------------------- handle_audio_validation ---------------------- *)
\* data.get("text", "")
TextOf(data) == IF data.hasText THEN data.text ELSE <<>>

\* data.get("length", 0)
\* (faulty variant: a default above the limit)
LengthOfDefaultLongBug(data) ==
  IF data.hasLength THEN data.length ELSE Tenths(MaxDuration) + 1
LengthOf(data) == IF data.hasLength THEN data.length ELSE 0

\* if not text
\* (faulty variant: only a missing field rejected, an empty text let through)
NotTextMissingOnlyBug(data) == ~data.hasText
NotText(data) == TextOf(data) = <<>>

\* if length <= 60
\* (faulty variant: < in place of <=)
WithinLimitStrictBug(length) == length < Tenths(MaxDuration)
WithinLimit(length) == length <= Tenths(MaxDuration)

\* an exception of the summarizer leaves the view function
\* (faulty variant: the exception caught and the original text answered)
OnSummarizerErrorSwallowBug(text) == Success(text)
OnSummarizerError(text) == InternalError

\* The whole view function for one request and one behaviour of the
\* summarizer: the gate's state afterwards, the response, the calls made to
\* the summarizer and how the summarizer behaved ("idle": not called).
handle_audio_validation(data, outcome) ==
  LET text == TextOf(data)
      length == LengthOf(data)
  IN  IF NotText(data)
      THEN [gate |-> "responded", response |-> MissingText, calls |-> <<>>,
            summarizer |-> "idle"]
      ELSE IF WithinLimit(length)
      THEN [gate |-> "responded", response |-> Success(text), calls |-> <<>>,
            summarizer |-> "idle"]
      ELSE LET trimmed_text == trim_text_middle(text)
               calls == <<SummarizerCall(trimmed_text)>>
           IN  CASE outcome = "hangs" ->
                      [gate |-> "blocked", response |-> NoResponse, calls |-> calls,
                       summarizer |-> outcome]
                 [] outcome = "throws" ->
                      [gate |-> "responded", response |-> OnSummarizerError(text),
                       calls |-> calls, summarizer |-> outcome]
                 [] OTHER ->
                      [gate |-> "responded",
                       response |-> Success(summary_text(trimmed_text, outcome)),
                       calls |-> calls, summarizer |-> outcome]

(* ------------------------ calculate_audio_duration -------------------- *)
\* (faulty variant: characters counted in place of words)
DurationByCharsBug(text) == (Len(text) * RateSeconds * 10) \div RateWords
calculate_audio_duration(text) ==
  (Len(Split(text)) * RateSeconds * 10) \div RateWords

(* ------------------------------ inputs -------------------------------- *)
Styles == {"plain", "ragged"}

\* "plain": one-letter words 1..w separated by one blank.
\* "ragged": a leading blank, then two-letter words each followed by a
\* blank and a newline.
GenText(w, style) ==
  IF style = "plain"
  THEN [i \in 1..(2 * w - 1) |-> IF i % 2 = 1 THEN (i + 1) \div 2 ELSE Space]
  ELSE [i \in 1..(4 * w + 1) |->
          IF i = 1 THEN Space
          ELSE LET j == i - 2
               IN  IF j % 4 < 2 THEN j \div 4 + 1
                   ELSE IF j % 4 = 2 THEN Space ELSE -1]

\* a text given as a stream of two chunks
Chunks(text) ==
  LET h == Len(text) \div 2
  IN  <<SubSeq(text, 1, h), SubSeq(text, h + 1, Len(text))>>

\* lengths a client other than the assistant may send
DirectLengths == {Tenths(MaxDuration), Tenths(MaxDuration) + 1}

NoRequest == [hasText |-> FALSE, text |-> <<>>, hasLength |-> FALSE, length |-> 0]
NoInput == [w |-> 0, style |-> "none"]

(* ------------------------------- state -------------------------------- *)
VARIABLES
  pc,               \* "idle", "posted", "returned", "raised", "received"
  origin,           \* "none", "caller" (the assistant), "direct"
  text,             \* the local text of validate_text_before_tts
  request,          \* the JSON body sent to the gate
  gate,             \* "none", "pending", "blocked", "responded"
  response,         \* the gate's response
  summarizerCalls,  \* the calls made to the summarizer for this request
  summarizer,       \* "idle", or how the summarizer behaved when called
  validated_text,   \* what validate_text_before_tts returned
  prev,             \* request and response of the first gating, once re-gated
  regated,          \* the response of a first gating was gated again
  input             \* how the request text was generated (words, style)

vars == <<pc, origin, text, request, gate, response, summarizerCalls,
          summarizer, validated_text, prev, regated, input>>

Init ==
  /\ pc = "idle"
  /\ origin = "none"
  /\ text = <<>>
  /\ request = NoRequest
  /\ gate = "none"
  /\ response = NoResponse
  /\ summarizerCalls = <<>>
  /\ summarizer = "idle"
  /\ validated_text = <<>>
  /\ prev = [request |-> NoRequest, response |-> NoResponse]
  /\ regated = FALSE
  /\ input = NoInput

(* ----------------------- validate_text_before_tts --------------------- *)
\* lines 39-49: extract the text, estimate the duration, post the request.
\* requests.post raises when the gate cannot be reached.
CallerPost ==
  /\ pc = "idle"
  /\ \E w \in 0..MaxWords, style \in Styles, isStr \in BOOLEAN, reachable \in BOOLEAN :
       LET given == GenText(w, style)
           t == IF isStr THEN given ELSE stream_to_text(Chunks(given))
           estimated_length == calculate_audio_duration(t)
       IN  /\ text' = t
           /\ origin' = "caller"
           /\ input' = [w |-> w, style |-> style]
           /\ request' = [hasText |-> TRUE, text |-> t,
                          hasLength |-> TRUE, length |-> estimated_length]
           /\ IF reachable
              THEN pc' = "posted" /\ gate' = "pending"
              ELSE pc' = "raised" /\ gate' = "none"
  /\ UNCHANGED <<response, summarizerCalls, summarizer, validated_text, prev,
                 regated>>

\* lines 51-55: the response has arrived
CallerReceive ==
  /\ pc = "posted"
  /\ origin = "caller"
  /\ gate = "responded"
  /\ pc' = "returned"
  /\ validated_text' =
       IF response.status < BadRequest
       THEN (IF response.hasMessage THEN response.message ELSE text)
       ELSE text
  /\ UNCHANGED <<origin, text, request, gate, response, summarizerCalls,
                 summarizer, prev, regated, input>>

(* --------------------------- other clients ---------------------------- *)
\* any JSON body posted to /validate_audio
DirectPost ==
  /\ pc = "idle"
  /\ \E w \in 0..MaxWords, style \in Styles, hasText \in BOOLEAN,
        hasLength \in BOOLEAN, length \in DirectLengths :
       /\ hasText \/ (w = 0 /\ style = "plain")
       /\ hasLength \/ length = Tenths(MaxDuration)
       /\ request' = [hasText |-> hasText,
                      text |-> IF hasText THEN GenText(w, style) ELSE <<>>,
                      hasLength |-> hasLength,
                      length |-> IF hasLength THEN length ELSE 0]
       /\ input' = [w |-> w, style |-> style]
  /\ origin' = "direct"
  /\ pc' = "posted"
  /\ gate' = "pending"
  /\ UNCHANGED <<text, response, summarizerCalls, summarizer, validated_text,
                 prev, regated>>

DirectReceive ==
  /\ pc = "posted"
  /\ origin = "direct"
  /\ gate = "responded"
  /\ pc' = "received"
  /\ UNCHANGED <<origin, text, request, gate, response, summarizerCalls,
                 summarizer, validated_text, prev, regated, input>>

\* gate(gate(text, d), d'): the message of a response that gave the text
\* back is posted again, with any length
Regate ==
  /\ pc = "received"
  /\ ~regated
  /\ response.status = OkStatus
  /\ response.message = request.text
  /\ \E hasLength \in BOOLEAN, length \in DirectLengths :
       /\ hasLength \/ length = Tenths(MaxDuration)
       /\ request' = [hasText |-> TRUE, text |-> response.message,
                      hasLength |-> hasLength,
                      length |-> IF hasLength THEN length ELSE 0]
  /\ prev' = [request |-> request, response |-> response]
  /\ regated' = TRUE
  /\ pc' = "posted"
  /\ gate' = "pending"
  /\ response' = NoResponse
  /\ summarizerCalls' = <<>>
  /\ summarizer' = "idle"
  /\ UNCHANGED <<origin, text, validated_text, input>>

(* ------------------------------ the gate ------------------------------ *)
Handle ==
  /\ gate = "pending"
  /\ \E outcome \in SummarizerOutcomes :
       LET r == handle_audio_validation(request, outcome)
       IN  /\ gate' = r.gate
           /\ response' = r.response
           /\ summarizerCalls' = r.calls
           /\ summarizer' = r.summarizer
  /\ UNCHANGED <<pc, origin, text, request, validated_text, prev, regated, input>>

Next ==
  \/ CallerPost
  \/ CallerReceive
  \/ DirectPost
  \/ DirectReceive
  \/ Regate
  \/ Handle

Spec == Init /\ [][Next]_vars


(* ============================== properties ============================ *)
\* the number of whitespace-separated words of a text, counted by the
\* positions at which a word ends
WordCount(t) ==
  Cardinality({i \in 1..Len(t) :
                 t[i] \notin {0, -1} /\ (i = Len(t) \/ t[i + 1] \in {0, -1})})

\* the words a..b of a generated text, each of len letters, written with
\* single blanks between them
Window(a, b, len) ==
  [i \in 1..((b - a + 1) * (len + 1) - 1) |->
     IF i % (len + 1) = 0 THEN 0 ELSE a + (i - 1) \div (len + 1)]

\* the gate has finished with the current request (answered, or stuck)
Handled == gate \in {"responded", "blocked"}

\* the request carries a non-empty text
NonEmptyText == request.hasText /\ request.text # <<>>

\* C1: a request with at most 150 words and a supplied length above 60 that
\* is answered with success gets its own text back as the message.
C1_ShortTextNeverReduced ==
  (/\ gate = "responded"
   /\ NonEmptyText
   /\ input.w <= 150
   /\ request.hasLength /\ request.length > 600
   /\ response.status = 200)
  => response.message = request.text

\* C2: a request with non-empty text and a supplied length of at most 60 is
\* answered with success, the message is the request text, and the
\* summarizer is not called, whatever the number of words.
C2_PassThrough ==
  (Handled /\ NonEmptyText /\ request.hasLength /\ request.length <= 600)
  => /\ gate = "responded"
     /\ response.status = 200
     /\ response.hasMessage /\ ~response.hasError
     /\ response.message = request.text
     /\ summarizerCalls = <<>>

C2_Witness ==
  /\ gate = "responded"
  /\ ~regated
  /\ input.w > 150
  /\ request.hasLength /\ request.length = 600
  /\ response.status = 200
  /\ response.message = request.text
  /\ response.message = Window(1, input.w, 1)

\* C3: when the summarizer throws, the response is an error: it is not a
\* success, and it carries no message (neither the text nor an empty one).
C3_SummarizerFailureIsError ==
  (gate = "responded" /\ summarizer = "throws")
  => /\ response.status >= 400
     /\ ~response.hasMessage

C3_Witness ==
  /\ gate = "responded"
  /\ summarizer = "throws"
  /\ input.w > 150
  /\ request.hasLength /\ request.length > 600
  /\ response.status = 500

\* C4: a request whose text is missing or empty is answered with status 400,
\* an error field and no message field, for every length (also a missing
\* one), and the summarizer is not called.
C4_MissingTextIsInvalidInput ==
  (Handled /\ ~NonEmptyText)
  => /\ gate = "responded"
     /\ response.status = 400
     /\ response.hasError /\ ~response.hasMessage
     /\ summarizerCalls = <<>>

C4_Witness ==
  /\ gate = "responded"
  /\ request.hasText /\ request.text = <<>>
  /\ request.hasLength /\ request.length > 600
  /\ response.status = 400

\* C5: a success response to a request with non-empty text has a non-empty
\* message.
C5_MessageNeverEmpty ==
  (gate = "responded" /\ NonEmptyText /\ response.status = 200)
  => response.message # <<>>

\* C6: for a text of w > 150 words and a length above 60 the summarizer is
\* called once, with the words start+1..end of the text (counted from 1)
\* joined by single blanks, where trim_size = w div 2,
\* start = (w - trim_size) div 2 and end = start + trim_size: w div 2 words.
C6_MiddleWindow ==
  (summarizerCalls # <<>> /\ input.w > 150)
  => LET w == input.w
         trim_size == w \div 2
         start == (w - trim_size) \div 2
         end == start + trim_size
         len == IF input.style = "plain" THEN 1 ELSE 2
     IN  /\ Len(summarizerCalls) = 1
         /\ summarizerCalls[1].text = Window(start + 1, end, len)
         /\ WordCount(summarizerCalls[1].text) = w \div 2

C6_Witness ==
  /\ summarizerCalls # <<>>
  /\ input.w = 300
  /\ input.style = "ragged"
  /\ request.length > 600
  /\ summarizerCalls[1].text = Window(76, 225, 2)
  /\ WordCount(summarizerCalls[1].text) = 150

\* the first gating gave the text back because its length was at most 60
FirstPassedThrough ==
  /\ regated
  /\ prev.request.hasLength => prev.request.length <= 600
  /\ prev.response.status = 200
  /\ prev.response.message = prev.request.text

C8_NoEndlessWait == gate = "blocked" => ENABLED Next

\* C9: validate_text_before_tts never raises, and what it returns is the
\* message of a success response or else the original text.
C9_CallerAlwaysReturnsText ==
  /\ pc # "raised"
  /\ pc = "returned" =>
       validated_text = IF response.status = 200 THEN response.message ELSE text

\* C10: the length the assistant sends is above 60 exactly when its text has
\* more than 150 words; the summarizer is called exactly for those texts;
\* and a text of at most 150 words comes back unchanged from a success.
C10_CallerCalibrated ==
  origin = "caller"
  => /\ request.length > 600 <=> input.w > 150
     /\ Handled => (summarizerCalls # <<>> <=> input.w > 150)
     /\ (pc = "returned" /\ response.status = 200 /\ input.w <= 150)
          => validated_text = text

C10_Witness ==
  /\ origin = "caller"
  /\ pc = "returned"
  /\ input.w = 150
  /\ request.length = 600
  /\ summarizerCalls = <<>>
  /\ response.status = 200
  /\ validated_text = text
  /\ text # <<>>

=============================================================================
